---- MODULE Spec2Model ----
(***************************************************************************)
(* The texture asset pipeline of the solar-system renderer:                *)
(*   AdvancedTextureManager  (src/advanced_texture_manager.py)             *)
(*   SimpleTextureManager    (src/simple_texture_manager.py)               *)
(* A bounded pool of worker tasks pre-processes one image per celestial    *)
(* body, a pickle file per body caches the result on disk, and the main    *)
(* thread uploads the buffers to OpenGL.                                   *)
(***************************************************************************)
EXTENDS Integers, Sequences, FiniteSets, TLC

(***************************************************************************)
(* Program constants                                                       *)
(***************************************************************************)
\* ThreadPoolExecutor(max_workers=4)
MaxWorkers == 4
\* the 24 hour freshness window of a cache file, in seconds
CacheTTL == 86400
\* future.result(timeout=60) of the advanced manager, in seconds
FullDeadline == 60
\* future.result(timeout=30) of the simple manager, in seconds
SimpleDeadline == 30

(***************************************************************************)
(* Bounds of the model                                                     *)
(***************************************************************************)
\* how many tasks are submitted to pools in all when _init_async_loading is
\* run again: one body loaded twice
MaxTasks == 2
\* how many times clear_cache() is called on its own
MaxPurges == 1
\* how many times the clock is advanced by a freshness window
MaxTicks == 1
\* how many times the clock is advanced by TimeUnit while the main thread waits
MaxWaitTicks == 3

\* the clock value at construction
Epoch == 200000

(***************************************************************************)
(* texture_files: the bodies that are loaded, in the dict's order.  The    *)
(* model keeps the first five of the ten (one more than the pool has       *)
(* workers); where the pool's size does not matter it loads two of them,   *)
(* one with an animation recipe and one without, or the first alone.       *)
(***************************************************************************)
PoolOrder == <<"sun", "mercury", "venus", "earth", "mars">>
AssetOrder == <<"earth", "mars">>
Assets == {PoolOrder[i] : i \in 1..Len(PoolOrder)}
TextureFiles == {SubSeq(AssetOrder, 1, n) : n \in 1..Len(AssetOrder)}

\* the bodies _generate_animation_frames_safe has a recipe for
Animated == {"sun", "earth"}

(***************************************************************************)
(* Images.  A PIL image is abstracted to its size and to which file and    *)
(* which transforms produced its pixels; `tone` is the step of the         *)
(* animation recipe applied to the colours (0: none).                      *)
(***************************************************************************)
NoImage ==
    [name |-> "none", ver |-> "none", seg |-> FALSE, enh |-> FALSE, tone |-> 0,
     w |-> 0, h |-> 0]

\* width and height of the picture files
SourceSize(a) == IF a = "earth" THEN <<1024, 512>> ELSE <<256, 256>>

\* Image.open(file_path) followed by convert('RGBA')
RawImage(a) ==
    [name |-> a, ver |-> "cur", seg |-> FALSE, enh |-> FALSE, tone |-> 0,
     w |-> SourceSize(a)[1], h |-> SourceSize(a)[2]]

\* the buffer an earlier run of the program left in the cache
OldImage(a) ==
    [name |-> a, ver |-> "old", seg |-> TRUE, enh |-> TRUE, tone |-> 0,
     w |-> SourceSize(a)[1], h |-> SourceSize(a)[2]]

\* _smart_background_removal_improved on a decodable file: the mask is applied
\* to the alpha channel
SegmentedImage(a) == [RawImage(a) EXCEPT !.seg = TRUE]

\* _enhance_texture_safe: edge blending and the per-body tone table
EnhanceTextureSafe(img) == [img EXCEPT !.enh = TRUE]

\* hashlib.md5(image.tobytes()).hexdigest()
Md5(img) == <<"md5", img.name, img.ver, img.seg, img.enh, img.tone, img.w, img.h>>
NoHash == <<"md5", "none", "none", FALSE, FALSE, 0, 0, 0>>

\* pickle of a PIL image: Image.__getstate__ is [mode, size, data]
PickleImage(img) ==
    [mode |-> "RGBA", size |-> <<img.w, img.h>>,
     data |-> <<img.name, img.ver, img.seg, img.enh, img.tone>>]
\* unpickle: Image.__setstate__
UnpickleImage(p) ==
    [name |-> p.data[1], ver |-> p.data[2], seg |-> p.data[3], enh |-> p.data[4],
     tone |-> p.data[5],
     w |-> p.size[1], h |-> p.size[2]]
NoPickle == PickleImage(NoImage)

\* how many frames a recipe makes
FrameCount == 5

\* _generate_animation_frames_safe: for sun and earth, frames 0..4 of the
\* image, frame k having its colours scaled by 1 + c*sin(k*d) (frame 0 is the
\* image itself); no frames otherwise
AnimationFrames(img, a) ==
    IF a \in Animated THEN [f \in 1..FrameCount |-> [img EXCEPT !.tone = f - 1]] ELSE <<>>

(***************************************************************************)
(* Cache files: texture_cache/<name>_cache.pkl                             *)
(***************************************************************************)
NoFile ==
    [exists |-> FALSE, mtime |-> 0, readable |-> FALSE, keys |-> {},
     image_hash |-> NoHash, timestamp |-> 0, image_data |-> NoPickle]

\* the file pickle.dump(cache_data, f) leaves: cache_data written at `stamp`,
\* the file's modification time being when the write ended
CacheEntry(img, stamp, written) ==
    [exists |-> TRUE, mtime |-> written, readable |-> TRUE,
     keys |-> {"image_hash", "timestamp", "image_data"},
     image_hash |-> Md5(img), timestamp |-> stamp, image_data |-> PickleImage(img)]

\* a file opened with 'wb' whose dump did not complete: pickle.load raises on it
GarbledFile(written) == [NoFile EXCEPT !.exists = TRUE, !.mtime = written]

\* the record _save_to_cache writes: no 'image_data' key
LegacyEntry(img, stamp, written) ==
    [CacheEntry(img, stamp, written) EXCEPT
        !.keys = {"texture_id", "image_hash", "timestamp"}, !.image_data = NoPickle]

Miss == [hit |-> FALSE, image |-> NoImage, hash |-> NoHash]

\* Faulty variant: the record is used without the try/except around pickle.load
\* and without the check of its keys.
LoadFromCacheUnvalidated(file, t) ==
    IF ~file.exists THEN Miss
    ELSE IF t - file.mtime > CacheTTL THEN Miss
    ELSE [hit |-> TRUE, image |-> UnpickleImage(file.image_data), hash |-> file.image_hash]

\* _load_from_cache_preprocessed, as a function of the file and the clock
LoadFromCachePreprocessed(file, t) ==
    IF ~file.exists THEN Miss
    ELSE IF t - file.mtime > CacheTTL THEN Miss
    ELSE IF ~file.readable THEN Miss
    ELSE IF "image_data" \notin file.keys \/ "image_hash" \notin file.keys THEN Miss
    ELSE [hit |-> TRUE, image |-> UnpickleImage(file.image_data), hash |-> file.image_hash]

\* what the cache file of a task was when the task ran: whether there was a
\* file, whether it unpickles, whether the record has both required fields, and
\* its age by the stored timestamp and by the file's modification time
Probe(file, t) ==
    [exists |-> file.exists,
     readable |-> file.readable,
     fields |-> {"image_hash", "image_data"} \subseteq file.keys,
     stamp_age |-> t - file.timestamp,
     mtime_age |-> t - file.mtime]
NoProbe == Probe(NoFile, 0)

(***************************************************************************)
(* State                                                                   *)
(***************************************************************************)
VARIABLES
    mgr,                \* which manager class was constructed
    texture_files,      \* the bodies _init_async_loading submits, in order
    source,             \* pictures/<name>.jpg of each body
    cache,              \* texture_cache/<name>_cache.pkl of each body
    last_stored,        \* the buffer the latest completed dump put in the file
    now,                \* time.time() when the load in progress began
    elapsed,            \* the seconds since the load in progress began
    textures,           \* self.textures: name -> OpenGL texture id (0: no entry)
    processed_textures, \* self.processed_textures (NoImage: no entry)
    texture_hashes,     \* self.texture_hashes (NoHash: no entry)
    animation_frames,   \* self.animation_frames (<<>>: no entry)
    processing_queue,   \* self.processing_queue
    pc,                 \* where the main thread is
    await_idx,          \* the future the main thread is waiting for
    timed_out,          \* futures whose result(timeout=...) raised in this run
    loads,              \* runs of _init_async_loading so far
    task,               \* the pool's task of each body
    gl_tex,             \* the device's live texture objects
    gl_calls,           \* which thread has issued which device call
    gl_bound,           \* the texture bound to GL_TEXTURE_2D (0: the default one)
    gl_enabled,         \* whether GL_TEXTURE_2D is enabled
    current_frame,      \* self.current_frame
    last_drain,         \* what the latest process_queue did with each body
    purges,             \* calls of clear_cache() made on its own so far
    arg,                \* the input of the image function under study
    ret                 \* what the function returned for it

vars ==
    <<mgr, texture_files, source, cache, last_stored, now, elapsed, textures,
      processed_textures,
      texture_hashes, animation_frames, processing_queue, pc, await_idx,
      timed_out, loads, task, gl_tex, gl_calls, gl_bound, gl_enabled,
      current_frame, last_drain, purges, arg, ret>>

fileVars == <<texture_files, source, cache, last_stored>>

\* the bodies of texture_files
Loaded == {texture_files[i] : i \in 1..Len(texture_files)}
memVars == <<textures, processed_textures, texture_hashes, animation_frames>>
glVars == <<gl_tex, gl_calls, gl_bound>>
\* what the loading, the drain and the shutdown never touch
useVars == <<gl_enabled, current_frame, purges, arg, ret>>

\* the states of a picture file: decodable; decodable by Image.open but not by
\* the background removal; not decodable; not there
SourceKinds == {"valid", "unsegmentable", "corrupt", "missing"}

NoTex == 0

\* a task result: "failed", "cached", a PIL image, or (simple manager) a boolean
Result(kind, img) == [kind |-> kind, image |-> img]
NoResult == Result("none", NoImage)

\* what a process_queue run did with a body: how its latest item ended, how
\* many of its items were published, how often its cache file was read, and
\* the positions (in order of dequeueing) at which its items were popped
NoDrain == [outcome |-> "none", publishes |-> 0, file_reads |-> 0, at |-> <<>>]

\* no image function is under study
NoCall == [fn |-> "none"]
NoReturn == [done |-> FALSE]

\* a task of the pool: its state and result, the stages it ran, the cache file
\* it found, when a worker started it, when it returned, and when the main
\* thread began to wait for its future (times of the load in progress, in
\* seconds since it began)
IdleTask ==
    [st |-> "none", image |-> NoImage, result |-> NoResult, ops |-> {}, seen |-> NoProbe,
     started |-> 0, finished |-> 0, wait_from |-> 0]

\* the step of the clock while the main thread is blocked in future.result
TimeUnit == SimpleDeadline

\* the timeout the manager passes to future.result
Deadline == IF mgr = "advanced" THEN FullDeadline ELSE SimpleDeadline

\* the cache files an earlier run of the program (or _save_to_cache) can have
\* left: a fresh entry; an entry whose write began CacheTTL + 1 seconds ago and
\* ended a second later; a truncated file; a record without 'image_data'; a
\* record without 'image_hash'.  The second body starts with no file or with a
\* fresh entry.
InitCacheFiles(a) ==
    { NoFile, CacheEntry(OldImage(a), Epoch - 1, Epoch - 1) }
    \cup
    IF a # AssetOrder[1] THEN {}
    ELSE { CacheEntry(OldImage(a), Epoch - CacheTTL - 1, Epoch - CacheTTL),
           GarbledFile(Epoch - 1),
           LegacyEntry(OldImage(a), Epoch - 1, Epoch - 1),
           [CacheEntry(OldImage(a), Epoch - 1, Epoch - 1) EXCEPT
               !.keys = {"timestamp", "image_data"}, !.image_hash = NoHash] }

\* the fields __init__ sets, and the model's records of what has happened
Fresh ==
    /\ last_stored = [a \in Assets |-> NoImage]
    /\ now = Epoch
    /\ elapsed = 0
    /\ textures = [a \in Assets |-> NoTex]
    /\ processed_textures = [a \in Assets |-> NoImage]
    /\ texture_hashes = [a \in Assets |-> NoHash]
    /\ animation_frames = [a \in Assets |-> <<>>]
    /\ processing_queue = <<>>
    /\ pc = "idle"
    /\ await_idx = 0
    /\ timed_out = [a \in Assets |-> FALSE]
    /\ loads = 0
    /\ task = [a \in Assets |-> IdleTask]
    /\ gl_tex = {}
    /\ gl_calls = {}
    /\ gl_bound = NoTex
    /\ gl_enabled = FALSE
    /\ current_frame = 0
    /\ last_drain = [a \in Assets |-> NoDrain]
    /\ purges = 0

\* __init__ of either manager, up to its call of _init_async_loading (which
\* the constructor makes only if an OpenGL context is there)
Init ==
    /\ mgr \in {"advanced", "simple"}
    /\ texture_files \in TextureFiles
    /\ \E s \in [Loaded -> SourceKinds] :
          source = [a \in Assets |-> IF a \in Loaded THEN s[a] ELSE "missing"]
    /\ \E c \in [Loaded -> UNION {InitCacheFiles(a) : a \in Loaded}] :
          cache = [a \in Assets |-> IF a \in Loaded THEN c[a] ELSE NoFile]
    /\ \A a \in Assets : cache[a] \in InitCacheFiles(a)
    /\ mgr = "simple" => \A a \in Assets : cache[a] = NoFile
    /\ Fresh
    /\ arg = NoCall
    /\ ret = NoReturn

(***************************************************************************)
(* The pool                                                                *)
(***************************************************************************)
Running == {a \in Assets : task[a].st \in {"running", "loaded", "processed"}}

\* _init_async_loading up to the end of the submit loop: one task per body
InitAsyncLoading ==
    /\ pc = "idle"
    /\ loads = 0 \/ Len(texture_files) * (loads + 1) <= MaxTasks
    /\ loads' = loads + 1
    /\ task' = [a \in Assets |->
                   IF a \in Loaded THEN [IdleTask EXCEPT !.st = "queued"] ELSE IdleTask]
    /\ timed_out' = [a \in Assets |-> FALSE]
    /\ await_idx' = 1
    /\ pc' = "awaiting"
    /\ UNCHANGED <<mgr, useVars, elapsed, fileVars, now, memVars, processing_queue, glVars,
                   last_drain>>

\* a free worker of the pool picks the task up
\* Faulty variant: a queued task starts whether or not a worker is free.
TaskStartWithoutWorker(a) ==
    /\ task[a].st = "queued"
    /\ task' = [task EXCEPT ![a].st = "running", ![a].started = elapsed]
    /\ UNCHANGED <<mgr, useVars, elapsed, fileVars, now, memVars, processing_queue, pc,
                   await_idx, timed_out, loads, glVars, last_drain>>

TaskStart(a) ==
    /\ task[a].st = "queued"
    /\ Cardinality(Running) < MaxWorkers
    /\ task' = [task EXCEPT ![a].st = "running", ![a].started = elapsed]
    /\ UNCHANGED <<mgr, useVars, elapsed, fileVars, now, memVars, processing_queue, pc, await_idx,
                   timed_out, loads, glVars, last_drain>>

\* the task returns r
Done(t, r) == [t EXCEPT !.st = "done", !.result = r, !.finished = elapsed]

\* _smart_background_removal_improved(file_path): None (NoImage) when it fails
SmartBackgroundRemovalImproved(a) ==
    IF source[a] = "valid" THEN SegmentedImage(a) ELSE NoImage

\* _load_original_image(file_path): None (NoImage) when the file does not decode
LoadOriginalImage(a) ==
    IF source[a] \in {"valid", "unsegmentable"} THEN RawImage(a) ELSE NoImage

\* Faulty variant: no attempt at the original image when the removal fails.
LoadSourceNoRawFallback(a) ==
    [image |-> SmartBackgroundRemovalImproved(a), ops |-> {"segment"}]

\* lines 123-130: the background removal and, when it returns None, the original
\* image; the stages that ran and the image (NoImage: return "failed")
LoadSource(a) ==
    IF SmartBackgroundRemovalImproved(a) # NoImage
    THEN [image |-> SmartBackgroundRemovalImproved(a), ops |-> {"segment"}]
    ELSE [image |-> LoadOriginalImage(a), ops |-> {"segment", "raw"}]

\* _preprocess_texture_safe, lines 109-130: the existence check, the cache, the
\* source image
PreprocessLoad(a) ==
    LET t == [task[a] EXCEPT !.seen = Probe(cache[a], now)]
        c == LoadFromCachePreprocessed(cache[a], now)
        src == LoadSource(a)
    IN  /\ mgr = "advanced"
        /\ t.st = "running"
        /\ IF source[a] = "missing"
           THEN /\ task' = [task EXCEPT ![a] = Done(t, Result("failed", NoImage))]
                /\ UNCHANGED <<processed_textures, texture_hashes>>
           ELSE IF c.hit
           THEN /\ processed_textures' = [processed_textures EXCEPT ![a] = c.image]
                /\ texture_hashes' = [texture_hashes EXCEPT ![a] = c.hash]
                /\ task' = [task EXCEPT ![a] =
                       [Done(t, Result("cached", NoImage)) EXCEPT !.ops = {"tryLoad"}]]
           ELSE /\ UNCHANGED <<processed_textures, texture_hashes>>
                /\ task' = [task EXCEPT ![a] =
                       IF src.image = NoImage
                       THEN [Done(t, Result("failed", NoImage)) EXCEPT
                                !.ops = {"tryLoad"} \cup src.ops]
                       ELSE [t EXCEPT !.st = "loaded", !.image = src.image,
                                      !.ops = {"tryLoad"} \cup src.ops]]
        /\ UNCHANGED <<mgr, useVars, elapsed, fileVars, now, textures, animation_frames, processing_queue,
                       pc, await_idx, timed_out, loads, glVars, last_drain>>

\* lines 132-144: enhancement, animation frames, self.processed_textures[name]
PreprocessEnhance(a) ==
    LET t == task[a]
        enhanced == EnhanceTextureSafe(t.image)
        frames == AnimationFrames(enhanced, a)
    IN  /\ mgr = "advanced"
        /\ t.st = "loaded"
        /\ animation_frames' =
              IF frames # <<>> THEN [animation_frames EXCEPT ![a] = frames]
              ELSE animation_frames
        /\ processed_textures' = [processed_textures EXCEPT ![a] = enhanced]
        /\ task' = [task EXCEPT ![a] =
               [t EXCEPT !.st = "processed", !.image = enhanced,
                         !.ops = @ \cup {"enhance", "animate"}]]
        /\ UNCHANGED <<mgr, useVars, elapsed, fileVars, now, textures, texture_hashes, processing_queue,
                       pc, await_idx, timed_out, loads, glVars, last_drain>>

\* _save_preprocessed_to_cache(name, cache_file, image) on the file: open() may
\* fail, leaving the file as it was; the dump may fail, leaving it truncated
StoreOutcomes == {"ok", "open_fails", "dump_fails"}

\* Faulty variant: the image before enhancement is the one pickled.
SaveUnenhancedToCache(file, image, t, how) ==
    CASE how = "ok" -> CacheEntry([image EXCEPT !.enh = FALSE], t, t)
      [] how = "dump_fails" -> GarbledFile(t)
      [] OTHER -> file

\* Faulty variant: the record written is the one with the texture id.
SaveHandleToCache(file, image, t, how) ==
    CASE how = "ok" -> LegacyEntry(image, t, t)
      [] how = "dump_fails" -> GarbledFile(t)
      [] OTHER -> file

SavePreprocessedToCache(file, image, t, how) ==
    CASE how = "ok" -> CacheEntry(image, t, t)
      [] how = "dump_fails" -> GarbledFile(t)
      [] OTHER -> file

\* Faulty variant: the task returns enhanced_image before the cache is written.
PreprocessReturnsBeforeStore(a) ==
    /\ mgr = "advanced"
    /\ task[a].st = "processed"
    /\ task' = [task EXCEPT ![a] = Done(task[a], Result("image", task[a].image))]
    /\ UNCHANGED <<mgr, useVars, elapsed, fileVars, now, memVars, processing_queue, pc, await_idx,
                   timed_out, loads, glVars, last_drain>>

\* Faulty variant: a cache write that fails makes the task return "failed".
PreprocessFailsWithStore(a) ==
    LET t == task[a]
    IN  /\ mgr = "advanced"
        /\ t.st = "processed"
        /\ texture_hashes' = [texture_hashes EXCEPT ![a] = Md5(t.image)]
        /\ \E how \in StoreOutcomes :
              /\ cache' = [cache EXCEPT ![a] =
                              SavePreprocessedToCache(cache[a], t.image, now, how)]
              /\ last_stored' =
                    CASE how = "ok" -> [last_stored EXCEPT ![a] = t.image]
                      [] how = "dump_fails" -> [last_stored EXCEPT ![a] = NoImage]
                      [] OTHER -> last_stored
              /\ task' = [task EXCEPT ![a] =
                     [Done(t, IF how = "ok" THEN Result("image", t.image)
                              ELSE Result("failed", NoImage))
                        EXCEPT !.ops = @ \cup {"store"}]]
        /\ UNCHANGED <<mgr, useVars, elapsed, texture_files, source, now, textures,
                       processed_textures, animation_frames, processing_queue, pc,
                       await_idx, timed_out, loads, glVars, last_drain>>

\* lines 146-152: the hash is recorded, the cache file written, and the task
\* returns enhanced_image
PreprocessStore(a) ==
    LET t == task[a]
    IN  /\ mgr = "advanced"
        /\ t.st = "processed"
        /\ texture_hashes' = [texture_hashes EXCEPT ![a] = Md5(t.image)]
        /\ \E how \in StoreOutcomes :
              /\ cache' = [cache EXCEPT ![a] =
                              SavePreprocessedToCache(cache[a], t.image, now, how)]
              /\ last_stored' =
                    CASE how = "ok" -> [last_stored EXCEPT ![a] = t.image]
                      [] how = "dump_fails" -> [last_stored EXCEPT ![a] = NoImage]
                      [] OTHER -> last_stored
        /\ task' = [task EXCEPT ![a] =
               [Done(t, Result("image", t.image)) EXCEPT !.ops = @ \cup {"store"}]]
        /\ UNCHANGED <<mgr, useVars, elapsed, texture_files, source, now, textures, processed_textures,
                       animation_frames, processing_queue, pc, await_idx, timed_out,
                       loads, glVars, last_drain>>

(***************************************************************************)
(* The device                                                              *)
(***************************************************************************)
TexIds(gl) == {t.id : t \in gl}

\* glGenTextures(1): a name that is not in use
FreshId(gl) == CHOOSE i \in 1..(Cardinality(gl) + 1) : i \notin TexIds(gl)

Calls(thread, ops) == {[thread |-> thread, op |-> op] : op \in ops}

\* how a texture creation ends: with the texture; with glGenTextures returning 0;
\* with a device error reported (or raised) after the texture was generated
UploadOutcomes == {"ok", "gen_fails", "gl_error"}

\* _load_texture_to_opengl(image), called for body `name` by `thread`:
\* the id it returns (0 for None), the device's textures and the calls made.
\* A texture records the body it was created for, its pixels, and whether its
\* id was handed to the caller; `bound` is the texture glBindTexture left bound
\* (0: none was bound).
LoadTextureToOpenGL(image, name, thread, outcome, gl) ==
    IF outcome = "gen_fails"
    THEN [id |-> 0, gl_tex |-> gl, bound |-> NoTex,
          calls |-> Calls(thread, {"glGenTextures"})]
    ELSE [id |-> IF outcome = "ok" THEN FreshId(gl) ELSE 0,
          bound |-> FreshId(gl),
          gl_tex |-> gl \cup {[id |-> FreshId(gl), name |-> name, pixels |-> image,
                                handed |-> outcome = "ok"]},
          calls |-> Calls(thread, {"glGenTextures", "glBindTexture", "glTexImage2D"})]

(***************************************************************************)
(* SimpleTextureManager: the task itself creates the texture               *)
(***************************************************************************)
\* _load_texture_simple, run by a worker of the pool
LoadTextureSimple(a) ==
    LET t == task[a]
    IN  /\ mgr = "simple"
        /\ t.st = "running"
        /\ IF source[a] \in {"missing", "corrupt"}
           THEN /\ task' = [task EXCEPT ![a] = Done(t, Result("false", NoImage))]
                /\ UNCHANGED <<textures, glVars>>
           ELSE \E outcome \in UploadOutcomes :
                   LET up == LoadTextureToOpenGL(RawImage(a), a, "worker", outcome, gl_tex)
                   IN  /\ gl_tex' = up.gl_tex
                       /\ gl_calls' = gl_calls \cup up.calls
                       /\ gl_bound' = IF up.bound = NoTex THEN gl_bound ELSE up.bound
                       /\ IF outcome = "ok"
                          THEN /\ textures' = [textures EXCEPT ![a] = up.id]
                               /\ task' = [task EXCEPT ![a] =
                                      Done(t, Result("true", NoImage))]
                          ELSE /\ UNCHANGED textures
                               /\ task' = [task EXCEPT ![a] =
                                      Done(t, Result("false", NoImage))]
        /\ UNCHANGED <<mgr, useVars, elapsed, fileVars, now, processed_textures, texture_hashes,
                       animation_frames, processing_queue, pc, await_idx, timed_out,
                       loads, last_drain>>

(***************************************************************************)
(* The main thread: waiting for the futures                                *)
(***************************************************************************)
Append2(q, name, r) == Append(q, [name |-> name, result |-> r])

\* Faulty variant: the fallback appends its image twice.
FallbackEnqueuesTwice(a, q, bufs) ==
    IF source[a] \in {"valid", "unsegmentable"}
    THEN [queue |-> Append2(Append2(q, a, Result("image", RawImage(a))),
                            a, Result("image", RawImage(a))),
          processed_textures |-> [bufs EXCEPT ![a] = RawImage(a)]]
    ELSE [queue |-> q, processed_textures |-> bufs]

\* _fallback_texture_loading(name): the queue and the buffers it leaves
FallbackTextureLoading(a, q, bufs) ==
    IF source[a] \in {"valid", "unsegmentable"}
    THEN [queue |-> Append2(q, a, Result("image", RawImage(a))),
          processed_textures |-> [bufs EXCEPT ![a] = RawImage(a)]]
    ELSE [queue |-> q, processed_textures |-> bufs]

\* the step of the `for future in futures` loop after which the main thread
\* waits for the next future, or leaves the loop
NextFuture ==
    /\ await_idx' = await_idx + 1
    /\ pc' = IF await_idx = Len(texture_files) THEN "joining" ELSE "awaiting"
    /\ task' = IF await_idx = Len(texture_files) THEN task
               ELSE [task EXCEPT ![texture_files[await_idx + 1]].wait_from = elapsed]

\* future.result(timeout=...) returns the task's result
AwaitResult ==
    /\ pc = "awaiting"
    /\ LET a == texture_files[await_idx]
           r == task[a].result
       IN  /\ task[a].st = "done"
           /\ processing_queue' =
                 IF mgr = "advanced" /\ r.kind \in {"cached", "image"}
                 THEN Append2(processing_queue, a, r)
                 ELSE processing_queue
    /\ NextFuture
    /\ UNCHANGED <<mgr, useVars, elapsed, fileVars, now, memVars, timed_out, loads, glVars,
                   last_drain>>

\* future.result(timeout=...) raises: the timeout has passed since the main
\* thread began to wait, and the task is still queued or running
AwaitTimeout ==
    /\ pc = "awaiting"
    /\ LET a == texture_files[await_idx]
           fb == FallbackTextureLoading(a, processing_queue, processed_textures)
       IN  /\ task[a].st # "done"
           /\ elapsed - task[a].wait_from >= Deadline
           /\ timed_out' = [timed_out EXCEPT ![a] = TRUE]
           /\ IF mgr = "advanced"
              THEN /\ processing_queue' = fb.queue
                   /\ processed_textures' = fb.processed_textures
              ELSE UNCHANGED <<processing_queue, processed_textures>>
    /\ NextFuture
    /\ UNCHANGED <<mgr, useVars, elapsed, fileVars, now, textures, texture_hashes, animation_frames,
                   loads, glVars, last_drain>>

\* time passes while the main thread is blocked in future.result: the awaited
\* task has not returned, the timeout has not passed, and no task is left
\* queued while a worker is free
WaitTick ==
    /\ pc = "awaiting"
    /\ task[texture_files[await_idx]].st # "done"
    /\ elapsed - task[texture_files[await_idx]].wait_from < Deadline
    /\ \A a \in Assets : task[a].st = "queued" => Cardinality(Running) >= MaxWorkers
    /\ elapsed + TimeUnit <= MaxWaitTicks * TimeUnit
    /\ elapsed' = elapsed + TimeUnit
    /\ UNCHANGED <<mgr, useVars, now, fileVars, memVars, processing_queue, pc, await_idx,
                   timed_out, loads, task, glVars, last_drain>>

\* mutant of ExecutorExit: the executor is shut down without waiting
\* (shutdown(wait=False)), so the load returns while tasks are still running
ExecutorExitWithoutWait ==
    /\ pc = "joining"
    /\ pc' = "idle"
    /\ elapsed' = 0
    /\ task' = [a \in Assets |->
                   [task[a] EXCEPT !.started = 0, !.finished = 0, !.wait_from = 0]]
    /\ UNCHANGED <<mgr, useVars, fileVars, now, memVars, processing_queue, await_idx,
                   timed_out, loads, glVars, last_drain>>

\* the end of the `with ThreadPoolExecutor` block: shutdown(wait=True) returns
\* when every submitted task has finished
ExecutorExit ==
    /\ pc = "joining"
    /\ \A a \in Loaded : task[a].st = "done"
    /\ pc' = "idle"
    /\ elapsed' = 0
    /\ task' = [a \in Assets |->
                   [task[a] EXCEPT !.started = 0, !.finished = 0, !.wait_from = 0]]
    /\ UNCHANGED <<mgr, useVars, fileVars, now, memVars, processing_queue, await_idx,
                   timed_out, loads, glVars, last_drain>>

(***************************************************************************)
(* The main thread: process_queue                                          *)
(***************************************************************************)
Logged(s, name, outcome) ==
    [s EXCEPT !.last_drain[name].outcome = outcome]

\* Faulty variant: the registry is written although the upload failed.
LoadToOpenGLRegistersFailed(name, result, outcome, s) ==
    IF result.kind = "cached" THEN s
    ELSE IF s.processed_textures[name] = NoImage THEN Logged(s, name, "no_buffer")
    ELSE LET up == LoadTextureToOpenGL(s.processed_textures[name], name, "main",
                                       outcome, s.gl_tex)
             s1 == [s EXCEPT !.gl_tex = up.gl_tex, !.gl_calls = @ \cup up.calls,
                             !.gl_bound = IF up.bound = NoTex THEN @ ELSE up.bound]
         IN  IF up.id = 0
             THEN Logged([s1 EXCEPT !.textures[name] = FreshId(s.gl_tex)],
                         name, "upload_failed")
             ELSE [s1 EXCEPT !.textures[name] = up.id,
                             !.last_drain[name].outcome = "published",
                             !.last_drain[name].publishes = @ + 1]

\* _load_to_opengl_main_thread(name, result) on the state s
LoadToOpenGLMainThread(name, result, outcome, s) ==
    IF result.kind = "cached" THEN s
    ELSE IF s.processed_textures[name] = NoImage THEN Logged(s, name, "no_buffer")
    ELSE LET up == LoadTextureToOpenGL(s.processed_textures[name], name, "main",
                                       outcome, s.gl_tex)
             s1 == [s EXCEPT !.gl_tex = up.gl_tex, !.gl_calls = @ \cup up.calls,
                             !.gl_bound = IF up.bound = NoTex THEN @ ELSE up.bound]
         IN  IF up.id = 0 THEN Logged(s1, name, "upload_failed")
             ELSE [s1 EXCEPT !.textures[name] = up.id,
                             !.last_drain[name].outcome = "published",
                             !.last_drain[name].publishes = @ + 1]

\* _load_cached_texture(name): the cache file is read again, then uploaded
LoadCachedTexture(name, outcome, s) ==
    LET c == LoadFromCachePreprocessed(cache[name], now)
        r == [s EXCEPT !.last_drain[name].file_reads = @ + 1]
    IN  IF c.hit
        THEN LoadToOpenGLMainThread(name, Result("image", c.image), outcome,
                 [r EXCEPT !.processed_textures[name] = c.image,
                           !.texture_hashes[name] = c.hash])
        ELSE Logged(r, name, "cache_miss")

\* self.processing_queue.pop(0): the item leaves the queue
Pop(s, name) ==
    [s EXCEPT !.popped = @ + 1, !.last_drain[name].at = Append(@, s.popped + 1)]

\* Faulty variant: a failed upload escapes the loop, the rest is not processed.
RECURSIVE DrainQueueStopAtFailure(_, _, _)
DrainQueueStopAtFailure(q, outcomes, s) ==
    IF q = <<>> THEN s
    ELSE LET item == Head(q)
             s0 == Pop(s, item.name)
             s1 == IF item.result.kind = "cached"
                   THEN LoadCachedTexture(item.name, Head(outcomes), s0)
                   ELSE LoadToOpenGLMainThread(item.name, item.result, Head(outcomes), s0)
         IN  IF s1.last_drain[item.name].outcome = "upload_failed" THEN s1
             ELSE DrainQueueStopAtFailure(Tail(q), Tail(outcomes), s1)

\* Faulty variant: the newest item is popped first.
RECURSIVE DrainQueueNewestFirst(_, _, _)
DrainQueueNewestFirst(q, outcomes, s) ==
    IF q = <<>> THEN s
    ELSE LET item == q[Len(q)]
             s0 == Pop(s, item.name)
             s1 == IF item.result.kind = "cached"
                   THEN LoadCachedTexture(item.name, Head(outcomes), s0)
                   ELSE LoadToOpenGLMainThread(item.name, item.result, Head(outcomes), s0)
         IN  DrainQueueNewestFirst(SubSeq(q, 1, Len(q) - 1), Tail(outcomes), s1)

\* the `while self.processing_queue` loop, the i-th upload ending as outcomes[i]
RECURSIVE DrainQueue(_, _, _)
DrainQueue(q, outcomes, s) ==
    IF q = <<>> THEN s
    ELSE LET item == Head(q)
             s0 == Pop(s, item.name)
             s1 == IF item.result.kind = "cached"
                   THEN LoadCachedTexture(item.name, Head(outcomes), s0)
                   ELSE LoadToOpenGLMainThread(item.name, item.result, Head(outcomes), s0)
         IN  DrainQueue(Tail(q), Tail(outcomes), s1)

\* the body of process_queue(): with an empty queue it returns at once
ProcessQueueBody ==
    /\ mgr = "advanced"
    /\ processing_queue = <<>> => UNCHANGED <<memVars, glVars, last_drain>>
    /\ processing_queue # <<>> => \E outcomes \in [1..Len(processing_queue) -> UploadOutcomes] :
          LET s0 == [textures |-> textures,
                     processed_textures |-> processed_textures,
                     texture_hashes |-> texture_hashes,
                     gl_tex |-> gl_tex, gl_calls |-> gl_calls, gl_bound |-> gl_bound,
                     last_drain |-> [a \in Assets |-> NoDrain], popped |-> 0]
              s == DrainQueue(processing_queue, outcomes, s0)
          IN  /\ textures' = s.textures
              /\ processed_textures' = s.processed_textures
              /\ texture_hashes' = s.texture_hashes
              /\ gl_tex' = s.gl_tex
              /\ gl_calls' = s.gl_calls
              /\ gl_bound' = s.gl_bound
              /\ last_drain' = s.last_drain
    /\ processing_queue' = <<>>
    /\ UNCHANGED <<mgr, useVars, elapsed, fileVars, now, animation_frames, pc, await_idx, timed_out,
                   loads, task>>

\* process_queue() once the load has returned
ProcessQueue ==
    /\ pc = "idle"
    /\ ProcessQueueBody

(***************************************************************************)
(* The main thread: optimize_memory and cleanup                            *)
(***************************************************************************)
\* the side above which optimize_memory shrinks a buffer, and the side it gets
MaxSide == 512

\* image.resize((512, 512), LANCZOS) of a buffer wider or higher than 512
OptimizedImage(img) ==
    IF img.w > MaxSide \/ img.h > MaxSide
    THEN [img EXCEPT !.w = MaxSide, !.h = MaxSide]
    ELSE img

\* optimize_memory(): every large processed buffer is replaced by its resized
\* copy; nothing else is touched
OptimizeMemory ==
    /\ mgr = "advanced"
    /\ pc = "idle"
    /\ processed_textures' =
          [a \in Assets |->
              IF processed_textures[a] = NoImage THEN NoImage
              ELSE OptimizedImage(processed_textures[a])]
    /\ UNCHANGED <<mgr, useVars, elapsed, fileVars, now, textures, texture_hashes, animation_frames,
                   processing_queue, pc, await_idx, timed_out, loads, task, glVars,
                   last_drain>>

\* shutil.rmtree(cache_dir) followed by makedirs: no file is left; when it
\* raises, clear_cache prints and the files stay
RmtreeOutcomes == {"ok", "fails"}

\* Faulty variant: only the first body's file is removed.
ClearCacheFirstOnly(files, how) ==
    IF how = "ok" THEN [files EXCEPT ![AssetOrder[1]] = NoFile] ELSE files

\* clear_cache() on the cache directory
ClearCache(files, how) ==
    IF how = "ok" THEN [a \in Assets |-> NoFile] ELSE files

\* the ids held by the registry
RegistryIds == {textures[a] : a \in Assets} \ {NoTex}

\* cleanup() of either manager (deleting the bound texture leaves the default
\* one bound).  The advanced manager deletes the textures of
\* the registry, clears processed_textures and animation_frames and calls
\* clear_cache; the simple manager deletes the textures and clears the registry.
\* Nothing but ProcessQueueAfterCleanup uses the manager afterwards.
Cleanup ==
    /\ pc \in {"idle", "rendering"}
    /\ pc' = "closed"
    /\ gl_tex' = {t \in gl_tex : t.id \notin RegistryIds}
    /\ gl_bound' = IF gl_bound \in RegistryIds THEN NoTex ELSE gl_bound
    /\ gl_calls' = gl_calls \cup
          IF RegistryIds = {} THEN {}
          ELSE Calls("main", IF mgr = "advanced"
                             THEN {"glIsTexture", "glDeleteTextures"}
                             ELSE {"glDeleteTextures"})
    /\ IF mgr = "advanced"
       THEN /\ processed_textures' = [a \in Assets |-> NoImage]
            /\ animation_frames' = [a \in Assets |-> <<>>]
            /\ \E how \in RmtreeOutcomes : cache' = ClearCache(cache, how)
            /\ UNCHANGED textures
       ELSE /\ textures' = [a \in Assets |-> NoTex]
            /\ UNCHANGED <<processed_textures, animation_frames, cache>>
    /\ UNCHANGED <<mgr, useVars, elapsed, texture_files, source, last_stored, now, texture_hashes,
                   processing_queue, await_idx, timed_out, loads, task, last_drain>>

(***************************************************************************)
(* The clock                                                               *)
(***************************************************************************)
\* a freshness window passes while the program is idle
Tick ==
    /\ pc = "idle"
    /\ now + CacheTTL <= Epoch + MaxTicks * CacheTTL
    /\ now' = now + CacheTTL
    /\ UNCHANGED <<mgr, useVars, elapsed, fileVars, memVars, processing_queue, pc, await_idx,
                   timed_out, loads, task, glVars, last_drain>>

Next ==
    \/ InitAsyncLoading
    \/ \E a \in Assets : TaskStart(a)
    \/ \E a \in Assets : PreprocessLoad(a)
    \/ \E a \in Assets : PreprocessEnhance(a)
    \/ \E a \in Assets : PreprocessStore(a)
    \/ \E a \in Assets : LoadTextureSimple(a)
    \/ AwaitResult
    \/ AwaitTimeout
    \/ WaitTick
    \/ ExecutorExit
    \/ ProcessQueue
    \/ OptimizeMemory
    \/ Cleanup
    \/ Tick

Spec == Init /\ [][Next]_vars

\* the load of five bodies, one more than the pool has workers: the picture of
\* the first is decodable or not there, the others are not there, and no
\* cache file is left by an earlier run
PoolInit ==
    /\ mgr \in {"advanced", "simple"}
    /\ texture_files = PoolOrder
    /\ \E s \in {"valid", "missing"} :
          source = [a \in Assets |-> IF a = PoolOrder[1] THEN s ELSE "missing"]
    /\ cache = [a \in Assets |-> NoFile]
    /\ Fresh
    /\ arg = NoCall
    /\ ret = NoReturn

PoolSpec == PoolInit /\ [][Next]_vars

\* clear_cache() called on its own
PurgeCache ==
    /\ mgr = "advanced"
    /\ pc = "idle"
    /\ purges < MaxPurges
    /\ purges' = purges + 1
    /\ \E how \in RmtreeOutcomes : cache' = ClearCache(cache, how)
    /\ UNCHANGED <<mgr, gl_enabled, current_frame, arg, ret, elapsed, texture_files,
                   source, last_stored, now, memVars, processing_queue, pc, await_idx,
                   timed_out, loads, task, glVars, last_drain>>

\* the program when the cache is also purged between its other operations
PurgeNext == Next \/ PurgeCache

PurgeSpec == Init /\ [][PurgeNext]_vars

(***************************************************************************)
(* The render loop: binding and animation.  The renderer constructs the    *)
(* manager, then draws frames until it shuts the manager down; once it has *)
(* begun to draw (pc = "rendering") nothing is loaded any more.            *)
(***************************************************************************)
\* how many textures the device holds at most when bind_animated_texture is
\* allowed to create one more
MaxTextures == 2

\* self.current_frame wraps at this value
FrameWrap == 10

\* get_texture(name): the registry's id, None (0) without an entry
GetTexture(reg, name) == reg[name]

\* Faulty variant: texturing is enabled whether or not there is a handle.
BindTextureAlwaysEnables(a) ==
    /\ pc \in {"idle", "rendering"}
    /\ pc' = "rendering"
    /\ a \in Loaded
    /\ gl_enabled' = TRUE
    /\ gl_bound' = IF textures[a] # NoTex THEN textures[a] ELSE gl_bound
    /\ gl_calls' = gl_calls \cup Calls("main", {"glEnable", "glBindTexture"})
    /\ UNCHANGED <<mgr, elapsed, fileVars, now, memVars, processing_queue, await_idx,
                   timed_out, loads, task, gl_tex, current_frame, last_drain, purges, arg, ret>>

\* bind_texture(name) of either manager, on the main thread: the advanced one
\* tests the id (`if texture_id`), the simple one tests the key
BindTexture(a) ==
    /\ pc \in {"idle", "rendering"}
    /\ pc' = "rendering"
    /\ a \in Loaded
    /\ IF GetTexture(textures, a) # NoTex
       THEN /\ gl_enabled' = TRUE
            /\ gl_bound' = GetTexture(textures, a)
            /\ gl_calls' = gl_calls \cup Calls("main", {"glEnable", "glBindTexture"})
       ELSE /\ gl_enabled' = FALSE
            /\ gl_bound' = gl_bound
            /\ gl_calls' = gl_calls \cup Calls("main", {"glDisable"})
    /\ UNCHANGED <<mgr, elapsed, fileVars, now, memVars, processing_queue, await_idx,
                   timed_out, loads, task, gl_tex, current_frame, last_drain, purges, arg, ret>>

\* unbind_texture() of either manager
UnbindTexture ==
    /\ pc \in {"idle", "rendering"}
    /\ pc' = "rendering"
    /\ gl_enabled' = FALSE
    /\ gl_calls' = gl_calls \cup Calls("main", {"glDisable"})
    /\ UNCHANGED <<mgr, elapsed, fileVars, now, memVars, processing_queue, await_idx,
                   timed_out, loads, task, gl_tex, gl_bound, current_frame, last_drain,
                   purges, arg, ret>>

\* Faulty variant: the counter wraps at a value that is no multiple of the
\* length of the sequences.
NextFrameWrapsAtSeven(frame) == (frame + 1) % 7

\* self.current_frame after update_animations() once 0.1 s have passed
NextFrame(frame) == (frame + 1) % FrameWrap

\* update_animations() of the advanced manager, more than 0.1 s after the
\* latest update (earlier than that, and in the simple manager, it does nothing)
UpdateAnimations ==
    /\ mgr = "advanced"
    /\ pc \in {"idle", "rendering"}
    /\ pc' = "rendering"
    /\ current_frame' = NextFrame(current_frame)
    /\ UNCHANGED <<mgr, elapsed, fileVars, now, memVars, processing_queue, await_idx,
                   timed_out, loads, task, glVars, gl_enabled, last_drain, purges, arg, ret>>

\* get_animated_texture(name): frames[current_frame % len(frames)], None
\* (NoImage) for a body without frames
GetAnimatedTexture(frames, frame, name) ==
    IF frames[name] # <<>>
    THEN frames[name][(frame % Len(frames[name])) + 1]
    ELSE NoImage

\* bind_animated_texture(name): the current frame is uploaded as a new texture
\* and bound; without a frame, or when the upload fails, bind_texture(name)
BindAnimatedTexture(a) ==
    LET img == GetAnimatedTexture(animation_frames, current_frame, a)
    IN  /\ mgr = "advanced"
        /\ pc \in {"idle", "rendering"}
        /\ pc' = "rendering"
        /\ a \in Loaded
        /\ Cardinality(gl_tex) < MaxTextures
        /\ \E outcome \in UploadOutcomes :
              LET up == IF img = NoImage
                        THEN [id |-> NoTex, gl_tex |-> gl_tex, bound |-> NoTex, calls |-> {}]
                        ELSE LoadTextureToOpenGL(img, a, "main", outcome, gl_tex)
                  bound == IF up.bound = NoTex THEN gl_bound ELSE up.bound
              IN  /\ img = NoImage => outcome = "ok"
                  /\ gl_tex' = up.gl_tex
                  /\ IF up.id # NoTex
                     THEN /\ gl_enabled' = TRUE
                          /\ gl_bound' = up.id
                          /\ gl_calls' = gl_calls \cup up.calls
                                  \cup Calls("main", {"glEnable", "glBindTexture"})
                     ELSE IF GetTexture(textures, a) # NoTex
                     THEN /\ gl_enabled' = TRUE
                          /\ gl_bound' = GetTexture(textures, a)
                          /\ gl_calls' = gl_calls \cup up.calls
                                  \cup Calls("main", {"glEnable", "glBindTexture"})
                     ELSE /\ gl_enabled' = FALSE
                          /\ gl_bound' = bound
                          /\ gl_calls' = gl_calls \cup up.calls
                                  \cup Calls("main", {"glDisable"})
        /\ UNCHANGED <<mgr, elapsed, fileVars, now, memVars, processing_queue,
                       await_idx, timed_out, loads, task, current_frame, last_drain,
                       purges, arg, ret>>

\* the manager as the renderer uses it: both bodies loaded from decodable or
\* absent pictures, no cache files left by an earlier run
RenderInit ==
    /\ Init
    /\ texture_files = AssetOrder
    /\ \A a \in Loaded : source[a] \in {"valid", "missing"} /\ cache[a] = NoFile

\* the runs in which every future returns before the main thread has waited
\* for it, the queue is drained, and frames are drawn until the shutdown
RenderNext ==
    \/ InitAsyncLoading
    \/ \E a \in Assets : TaskStart(a)
    \/ \E a \in Assets : PreprocessLoad(a)
    \/ \E a \in Assets : PreprocessEnhance(a)
    \/ \E a \in Assets : PreprocessStore(a)
    \/ \E a \in Assets : LoadTextureSimple(a)
    \/ AwaitResult
    \/ ExecutorExit
    \/ ProcessQueue
    \/ Cleanup
    \/ \E a \in Assets : BindTexture(a)
    \/ UnbindTexture
    \/ UpdateAnimations
    \/ \E a \in Assets : BindAnimatedTexture(a)

RenderSpec == RenderInit /\ [][RenderNext]_vars

(***************************************************************************)
(* Properties                                                              *)
(***************************************************************************)
Advanced == mgr = "advanced"

\* the live textures whose id was handed out for body a
Handles(a) == {t \in gl_tex : t.name = a /\ t.handed}

\* the task of a has passed the cache check of _preprocess_texture_safe
CheckedCache(a) == "tryLoad" \in task[a].ops

\* the file the task of a found was a record with both required fields
SawEntry(a) == task[a].seen.exists /\ task[a].seen.readable /\ task[a].seen.fields

\* C1: no worker-pool task ever performs a device (OpenGL) call: every texture
\* create, upload and bind call is issued by the main thread.
C1_DeviceCallsOnMainThreadOnly ==
    \A c \in gl_calls : c.thread = "main"

\* C2: a timed-out task's late result is discarded: once the main thread has
\* given up on the task of a body (here in the first load, so that nothing older
\* is around), the body's processed buffer is the fallback's raw buffer or
\* none, nothing is written to its cache file, and only the raw buffer is
\* ever uploaded for it.
C2_LateResultDiscarded ==
    \A a \in Assets :
        (Advanced /\ loads = 1 /\ timed_out[a]) =>
            /\ processed_textures[a] \in {NoImage, RawImage(a)}
            /\ last_stored[a] = NoImage
            /\ \A t \in gl_tex : t.name = a => t.pixels = RawImage(a)

\* the result a task must return, from the body's own files alone
OwnResultKind(a) ==
    IF source[a] = "missing" THEN "failed"
    ELSE IF SawEntry(a) /\ task[a].seen.mtime_age <= CacheTTL THEN "cached"
    ELSE IF LoadSource(a).image = NoImage THEN "failed"
    ELSE "image"

\* C3: isolation.  Whatever happens to the other body, a finished task returns
\* what the body's own source and cache file determine; and once the load has
\* returned and the queue is drained, a body with a missing source was never
\* enqueued and has no handle, while a body with a decodable source was
\* dequeued and has a handle unless its own upload or its own cache re-read
\* failed.  (No step of the pool or of the drain fails because of another body.)
C3_Isolation ==
    \A a \in Loaded :
        Advanced =>
            /\ task[a].st = "done" =>
                  /\ task[a].result.kind = OwnResultKind(a)
                  /\ task[a].result.kind = "image" =>
                        task[a].result.image = EnhanceTextureSafe(LoadSource(a).image)
            /\ (pc = "idle" /\ loads >= 1 /\ processing_queue = <<>>) =>
                  /\ source[a] = "missing" =>
                        textures[a] = NoTex /\ last_drain[a].outcome = "none"
                  /\ source[a] \in {"valid", "unsegmentable"} =>
                        /\ last_drain[a].outcome \in
                              {"published", "upload_failed", "cache_miss"}
                        /\ last_drain[a].outcome = "published" => textures[a] # NoTex

\* C3 witness: earth valid and mars missing, loaded and drained: earth has a
\* handle, mars has none and its task failed.
C3_Witness ==
    /\ Advanced /\ texture_files = <<"earth", "mars">>
    /\ source["earth"] = "valid" /\ source["mars"] = "missing"
    /\ pc = "idle" /\ loads = 1 /\ processing_queue = <<>>
    /\ task["mars"].result.kind = "failed"
    /\ last_drain["earth"].outcome = "published"
    /\ textures["earth"] # NoTex /\ textures["mars"] = NoTex

\* C4: at most one live device handle exists per body, and every live handle is
\* the registry's current handle of its body.
C4_AtMostOneLiveHandle ==
    \A a \in Assets :
        /\ Cardinality(Handles(a)) <= 1
        /\ \A t \in Handles(a) : textures[a] = t.id

\* C5: a body requested again before its first load was published is published
\* once: no drain publishes the same body twice.
C5_SecondRequestIsNoOp ==
    \A a \in Assets : last_drain[a].publishes <= 1

\* C6: every load task consults the cache first: a task that ran while the cache
\* held a fresh, valid entry returns "cached" without loading or transforming
\* the source, whatever the state of the source file.
C6_CacheConsultedFirst ==
    \A a \in Assets :
        (Advanced /\ task[a].st = "done" /\ SawEntry(a)
            /\ task[a].seen.stamp_age <= CacheTTL) =>
            /\ task[a].result.kind = "cached"
            /\ task[a].ops = {"tryLoad"}

C8_FreshnessByStoredTimestamp ==
    \A a \in Assets :
        (Advanced /\ CheckedCache(a) /\ SawEntry(a)) =>
            (task[a].result.kind = "cached" <=> task[a].seen.stamp_age <= CacheTTL)

\* a step in which the task of a goes through the cache check
CacheCheckStep(a) ==
    Advanced /\ task[a].st = "running" /\ task'[a].st # "running" /\ source[a] # "missing"

\* C9: a cache file that does not unpickle, or lacks 'image_hash' or
\* 'image_data', is a clean miss: the task does not return "cached", the read
\* leaves the body's processed buffer and hash as they were, and the task goes
\* on to the source and, if it decodes, the whole pipeline and the store.
C9_CorruptCacheIsCleanMiss ==
    /\ [](\A a \in Assets :
            (Advanced /\ CheckedCache(a) /\ task[a].seen.exists /\ ~SawEntry(a)) =>
                /\ task[a].result.kind # "cached"
                /\ "segment" \in task[a].ops
                /\ task[a].st = "done" =>
                      IF LoadSource(a).image = NoImage
                      THEN task[a].result.kind = "failed"
                      ELSE /\ task[a].result =
                                 Result("image", EnhanceTextureSafe(LoadSource(a).image))
                           /\ task[a].ops = LoadSource(a).ops
                                 \cup {"tryLoad", "enhance", "animate", "store"})
    /\ [][\A a \in Assets :
            (CacheCheckStep(a) /\ cache[a].exists
                /\ ~(Probe(cache[a], now).readable /\ Probe(cache[a], now).fields)) =>
                /\ processed_textures'[a] = processed_textures[a]
                /\ texture_hashes'[a] = texture_hashes[a]]_vars

\* C9 witness: a task found a truncated cache file and has returned the
\* recomputed image.
C9_Witness ==
    \E a \in Assets :
        /\ Advanced /\ task[a].st = "done" /\ task[a].result.kind = "image"
        /\ task[a].seen.exists /\ ~task[a].seen.readable
        /\ task[a].seen.mtime_age <= CacheTTL

\* C10: cache idempotence.  A task that runs while the cache file is the one a
\* previous store completed, within the freshness window and with the source
\* still there, is a cache hit, and the buffer and hash it puts in memory are
\* those the store was given.
C10_CacheRoundTrip ==
    [][\A a \in Assets :
          (CacheCheckStep(a) /\ last_stored[a] # NoImage
              /\ now - cache[a].timestamp <= CacheTTL) =>
              /\ task'[a].result.kind = "cached"
              /\ processed_textures'[a] = last_stored[a]
              /\ texture_hashes'[a] = Md5(last_stored[a])]_vars

\* C10 witness: the second load of a body hit the entry the first load stored.
C10_Witness ==
    \E a \in Assets :
        /\ Advanced /\ loads = 2 /\ task[a].st = "done"
        /\ task[a].result.kind = "cached"
        /\ last_stored[a] = EnhanceTextureSafe(SegmentedImage(a))
        /\ processed_textures[a] = last_stored[a]

\* C11: in every state at rest the hash recorded for a body is the hash of the
\* bytes of its current processed buffer, and the entry a store of this run
\* left in the cache carries that same hash.  (Bodies whose task timed out are
\* left aside: their buffer is the fallback's.)
C11_HashMatchesBuffer ==
    \A a \in Assets :
        (Advanced /\ pc = "idle" /\ ~timed_out[a] /\ processed_textures[a] # NoImage) =>
            /\ texture_hashes[a] = Md5(processed_textures[a])
            /\ last_stored[a] # NoImage =>
                  cache[a].exists /\ cache[a].image_hash = Md5(processed_textures[a])

\* C12: shutdown leaves the on-disk cache unchanged: the cache files after
\* cleanup() are the cache files before it.
C12_ShutdownKeepsDiskCache ==
    [][(pc = "idle" /\ pc' = "closed") => cache' = cache]_vars

\* C13: after shutdown the registry maps no body to a handle (no handle that
\* was released can be looked up or bound), and the processed buffers, the
\* animation sequences and the handoff queue are empty.
C13_ShutdownClearsMemory ==
    pc = "closed" =>
        /\ \A a \in Assets :
              /\ textures[a] = NoTex
              /\ processed_textures[a] = NoImage
              /\ animation_frames[a] = <<>>
        /\ processing_queue = <<>>

\* C14: the drain performs no file I/O: no run of process_queue reads a cache
\* file, whatever the kind of the results in the queue.
C14_DrainDoesNoFileIO ==
    \A a \in Assets : last_drain[a].file_reads = 0

\* the items of body a in the queue q
Count(q, a) == Cardinality({i \in 1..Len(q) : q[i].name = a})

\* C15: each result is consumed exactly once.  A step enqueues at most one item
\* for a body, and only at the body's own turn of the await loop, which comes
\* once per load (the task's result or the fallback's image, never both); a
\* drain pops every item of the queue exactly once, publishes no more textures
\* for a body than it had items, and leaves the queue empty.
C15_ResultConsumedOnce ==
    [][\A a \in Assets :
          /\ Count(processing_queue', a) <= Count(processing_queue, a) + 1
          /\ Count(processing_queue', a) > Count(processing_queue, a) =>
                /\ pc = "awaiting" /\ texture_files[await_idx] = a
                /\ await_idx' = await_idx + 1
          /\ Len(processing_queue') < Len(processing_queue) =>
                /\ processing_queue' = <<>>
                /\ Len(last_drain'[a].at) = Count(processing_queue, a)
                /\ last_drain'[a].publishes <= Count(processing_queue, a)
                /\ \A i \in 1..Len(processing_queue) :
                      processing_queue[i].name = a =>
                          Cardinality({j \in 1..Len(last_drain'[a].at) :
                                          last_drain'[a].at[j] = i}) = 1]_vars

\* C15 witness: a body whose task timed out was enqueued by the fallback, and
\* the drain popped and published that one item.
C15_Witness ==
    \E a \in Assets :
        /\ Advanced /\ loads = 1 /\ pc = "idle" /\ timed_out[a]
        /\ processing_queue = <<>>
        /\ Len(last_drain[a].at) = 1 /\ last_drain[a].publishes = 1

\* C16: the drain is FIFO and non-blocking.  A run of process_queue pops the
\* items in the order they were enqueued (the i-th item of the queue is the
\* i-th popped), pops nothing else, and leaves the queue empty; with an empty
\* queue nothing is uploaded, published or logged; the drain is one step of the
\* main thread that neither waits for nor touches any task.
C16_DrainFifoNonBlocking ==
    [][Advanced =>
            /\ Len(processing_queue') < Len(processing_queue) =>
                  /\ processing_queue' = <<>>
                  /\ task' = task /\ pc = "idle" /\ pc' = "idle"
                  /\ \A i \in 1..Len(processing_queue) :
                        \E j \in 1..Len(last_drain'[processing_queue[i].name].at) :
                            last_drain'[processing_queue[i].name].at[j] = i
                  /\ \A a \in Assets : \A j \in 1..Len(last_drain'[a].at) :
                        /\ last_drain'[a].at[j] \in 1..Len(processing_queue)
                        /\ processing_queue[last_drain'[a].at[j]].name = a
            /\ processing_queue = <<>> =>
                  /\ last_drain' = last_drain
                  /\ textures' = textures
                  /\ gl_calls' # gl_calls => pc' = "closed"]_vars

\* C16 witness: a drain has popped earth first and mars second.
C16_Witness ==
    /\ Advanced /\ pc = "idle" /\ processing_queue = <<>>
    /\ last_drain["earth"].at = <<1>> /\ last_drain["mars"].at = <<2>>

\* the item a step appends to the queue is a result the pipeline of body a
\* computed (not "cached", not the fallback's raw image)
EnqueuesComputed(a) ==
    /\ Len(processing_queue') = Len(processing_queue) + 1
    /\ processing_queue'[Len(processing_queue')].name = a
    /\ processing_queue'[Len(processing_queue')].result.kind = "image"
    /\ processing_queue'[Len(processing_queue')].result.image.enh

\* C19: the cache write happens before the result is visible to the main
\* thread: when a computed result is put on the handoff queue, the task of that
\* body has finished and its cache store has been attempted.
C19_StoreBeforeHandoff ==
    [][\A a \in Assets :
          EnqueuesComputed(a) => task[a].st = "done" /\ "store" \in task[a].ops]_vars

\* C19 witness: a computed result is in the queue and the cache file holds it.
C19_Witness ==
    \E i \in 1..Len(processing_queue) :
        /\ processing_queue[i].result.kind = "image"
        /\ processing_queue[i].result.image.enh
        /\ last_stored[processing_queue[i].name] = processing_queue[i].result.image
        /\ cache[processing_queue[i].name].exists

\* C20: a failed upload leaves the body as it was and does not stop the drain.
\* In a run of process_queue, a body whose one item ended in a failed upload has
\* the registry entry it had before (none, if it had none) and no new handle,
\* and every item of the queue, before and after it, was popped and processed.
C20_FailedUploadDoesNotStopDrain ==
    [][(Advanced /\ Len(processing_queue') < Len(processing_queue)) =>
          /\ \A a \in Assets :
                (Count(processing_queue, a) = 1
                    /\ last_drain'[a].outcome = "upload_failed") =>
                    /\ textures'[a] = textures[a]
                    /\ {t \in gl_tex' : t.name = a /\ t.handed} = Handles(a)
          /\ \A i \in 1..Len(processing_queue) :
                /\ Len(last_drain'[processing_queue[i].name].at)
                      = Count(processing_queue, processing_queue[i].name)
                /\ last_drain'[processing_queue[i].name].outcome # "none"]_vars

\* C20 witness: in one drain the upload of earth failed, earth has no handle,
\* and mars, behind it in the queue, was published.
C20_Witness ==
    /\ Advanced /\ pc = "idle" /\ processing_queue = <<>>
    /\ last_drain["earth"].outcome = "upload_failed" /\ textures["earth"] = NoTex
    /\ last_drain["mars"].outcome = "published" /\ textures["mars"] # NoTex

\* the turn of body a in the await loop
Turn(a) == CHOOSE i \in 1..Len(texture_files) : texture_files[i] = a

\* C17: every task is judged against its own deadline, measured from its own
\* start: once the main thread has dealt with the future of a body, a task that
\* took longer than the deadline from the moment a worker started it has been
\* reported as timed out.
C17_DeadlineFromOwnStart ==
    \A a \in Loaded :
        (Advanced /\ pc \in {"awaiting", "joining"} /\ await_idx > Turn(a)
            /\ task[a].st = "done"
            /\ task[a].finished - task[a].started > FullDeadline) =>
            timed_out[a]

\* C18: a body whose task succeeded (its result was put on the queue: a cache
\* hit, a computed image or the fallback's image) and whose upload did not fail
\* ends published: once the load has returned and the queue is drained, it has
\* a handle in the registry.
C18_SucceededTaskEndsPublished ==
    \A a \in Loaded :
        (Advanced /\ pc = "idle" /\ loads = 1 /\ processing_queue = <<>>
            /\ last_drain[a].at # <<>> /\ last_drain[a].outcome # "upload_failed") =>
            textures[a] # NoTex

(***************************************************************************)
(* The image functions on pixels.  _process_texture_edges treats every row *)
(* and every channel of the image alike, so a buffer is one row of one     *)
(* channel: the sequence of that channel's values from left to right.      *)
(***************************************************************************)
\* the widest band _process_texture_edges blends, and the fraction of the
\* width it takes
MaxEdge == 10
EdgeDivisor == 20

\* the widths of the rows tried, and how many columns at either end of a row
\* are chosen freely (the columns between have MidValue)
RowWidths == {19, 20, 39, 40, 60}
FreeColumns == 3
MidValue == 7
\* the channel values tried
ChannelValues == {0, 101, 255}

\* the sides of the buffers optimize_memory is tried on
Sides == {256, 512, 1024}

Min(x, y) == IF x < y THEN x ELSE y

\* edge_width = min(10, width // 20)
EdgeWidth(width) == Min(MaxEdge, width \div EdgeDivisor)

\* int((left_pixel[i] + right_pixel[i]) / 2)
Mixed(left, right) == (left + right) \div 2

\* the first loop: column x of the left band is mixed with column
\* width - edge_width + x of the image
LeftEdge(image, out) ==
    LET width == Len(image)
        b == EdgeWidth(width)
    IN  [p \in 1..width |->
            IF p <= b THEN Mixed(image[p], image[width - b + p]) ELSE out[p]]

\* the second loop, from its pass for left column x on: every pass writes the
\* whole right band, mixing each of its columns with left column x of the image
RECURSIVE RightEdge(_, _, _)
RightEdge(image, out, x) ==
    LET width == Len(image)
        b == EdgeWidth(width)
    IN  IF x > b THEN out
        ELSE RightEdge(image,
                       [p \in 1..width |->
                           IF p > width - b THEN Mixed(image[x], image[p]) ELSE out[p]],
                       x + 1)

\* _process_texture_edges(image, texture_name): both loops read `image` and
\* write the copy
ProcessTextureEdges(image) == RightEdge(image, LeftEdge(image, image), 1)

\* a row of the given width
Row(width, left, right) ==
    [p \in 1..width |->
        IF p <= FreeColumns THEN left[p]
        ELSE IF p > width - FreeColumns THEN right[p - (width - FreeColumns)]
        ELSE MidValue]

EdgeInputs ==
    {[fn |-> "edges", row |-> Row(w, l, r)] :
        w \in RowWidths,
        l \in [1..FreeColumns -> ChannelValues],
        r \in [1..FreeColumns -> ChannelValues]}

ResizeInputs ==
    {[fn |-> "resize", img |-> [RawImage(a) EXCEPT !.w = w, !.h = h]] :
        a \in {AssetOrder[1]}, w \in Sides, h \in Sides}

\* a manager that has loaded nothing, and an image to apply a function to
ImageInit ==
    /\ mgr = "advanced"
    /\ texture_files = AssetOrder
    /\ source = [a \in Assets |-> "missing"]
    /\ cache = [a \in Assets |-> NoFile]
    /\ Fresh
    /\ arg \in EdgeInputs \cup ResizeInputs
    /\ ret = NoReturn

\* _process_texture_edges is applied to the row
ApplyProcessTextureEdges ==
    /\ arg.fn = "edges"
    /\ ~ret.done
    /\ ret' = [done |-> TRUE, row |-> ProcessTextureEdges(arg.row)]
    /\ UNCHANGED <<mgr, elapsed, fileVars, now, memVars, processing_queue, pc, await_idx,
                   timed_out, loads, task, glVars, gl_enabled, current_frame,
                   last_drain, purges, arg>>

\* optimize_memory's treatment of one buffer is applied to the image
ApplyOptimizedImage ==
    /\ arg.fn = "resize"
    /\ ~ret.done
    /\ ret' = [done |-> TRUE, img |-> OptimizedImage(arg.img)]
    /\ UNCHANGED <<mgr, elapsed, fileVars, now, memVars, processing_queue, pc, await_idx,
                   timed_out, loads, task, glVars, gl_enabled, current_frame,
                   last_drain, purges, arg>>

ImageNext == ApplyProcessTextureEdges \/ ApplyOptimizedImage

ImageSpec == ImageInit /\ [][ImageNext]_vars

\* the column a column of one band is paired with in the other band
Counterpart(width, p) ==
    IF p <= EdgeWidth(width) THEN width - EdgeWidth(width) + p
    ELSE p - (width - EdgeWidth(width))

\* C28: seam blending of a buffer of width w uses the band b = min(10, w div 20).
\* Each pixel of the left band becomes the per-channel average of itself and
\* its counterpart near the right edge, each pixel of the right band the
\* average of itself and its counterpart in the left band, both read from the
\* buffer before the blend; the pixels outside the bands and the dimensions
\* are unchanged, and a buffer narrower than 20 is returned as it was.
C28_SeamBlend ==
    (arg.fn = "edges" /\ ret.done) =>
       LET width == Len(arg.row)
           b == Min(10, width \div 20)
       IN  /\ Len(ret.row) = width
           /\ \A p \in 1..width :
                 ret.row[p] =
                    IF p <= b \/ p > width - b
                    THEN (arg.row[p] + arg.row[Counterpart(width, p)]) \div 2
                    ELSE arg.row[p]
           /\ width < 20 => ret.row = arg.row

\* C29: shrinking to the budget downsizes exactly the buffers that exceed it.
\* Afterwards the buffer is no wider and no higher than the budget, neither of
\* its dimensions has grown, and a buffer that was within the budget is the
\* buffer it was.
C29_ShrinkNeverEnlarges ==
    (arg.fn = "resize" /\ ret.done) =>
       /\ ret.img.w <= MaxSide /\ ret.img.h <= MaxSide
       /\ ret.img.w <= arg.img.w /\ ret.img.h <= arg.img.h
       /\ (arg.img.w <= MaxSide /\ arg.img.h <= MaxSide) <=> ret.img = arg.img

(***************************************************************************)
(* The registry's writers, binding, and the cache under failures           *)
(***************************************************************************)
\* a step of process_queue on the main thread that takes items off the queue
DrainStep ==
    /\ pc = "idle" /\ pc' = "idle"
    /\ processing_queue # <<>> /\ processing_queue' = <<>>

\* C21: the registry is written only by the main thread, in the drain's publish
\* step or at shutdown: a step that adds, replaces or removes an entry of the
\* registry is a drain step or the shutdown, never a step of a pool worker and
\* never a bind or an animation update.
C21_RegistryWrittenOnlyByDrainOrShutdown ==
    [][textures' # textures => DrainStep \/ pc' = "closed"]_vars

\* C22: binding a key without a published handle disables texturing and leaves
\* the registry as it was (the step is an ordinary one: the manager goes on
\* rendering); binding a published key enables texturing and makes that key's
\* handle the current binding.
C22_BindByRegistry ==
    [][\A a \in Assets :
          BindTexture(a) =>
             /\ textures' = textures
             /\ pc' = "rendering"
             /\ textures[a] = NoTex => ~gl_enabled' /\ gl_bound' = gl_bound
             /\ textures[a] # NoTex => gl_enabled' /\ gl_bound' = textures[a]]_vars

\* one body is published and bound with texturing on, another body of the same
\* load has no handle, and texturing has been switched off for such a body
C22_Witness ==
    /\ pc = "rendering"
    /\ gl_enabled
    /\ \E a, b \in Loaded :
          /\ textures[a] # NoTex /\ gl_bound = textures[a]
          /\ textures[b] = NoTex
    /\ [thread |-> "main", op |-> "glDisable"] \in gl_calls

\* the store stage of body a's task ends without a record of its buffer on disk
StoreFailed(a) ==
    /\ task[a].st = "processed" /\ task'[a].st = "done"
    /\ cache'[a] # CacheEntry(task[a].image, now, now)

\* the main thread collects the result of body a's task
Collected(a) ==
    /\ pc = "awaiting" /\ await_idx' = await_idx + 1
    /\ texture_files[await_idx] = a
    /\ task[a].st = "done" /\ ~timed_out'[a]

\* C23: a cache write that fails does not fail the task.  The task still
\* completes with its processed buffer (the one it put in processed_textures,
\* which holds it unless the main thread gave up waiting and ran the fallback)
\* as its result, and when the main thread collects that result the body is
\* enqueued with it.
C23_StoreFailureDoesNotFailTask ==
    [][\A a \in Assets :
          /\ StoreFailed(a) =>
                /\ task[a].image # NoImage
                /\ task'[a].result = Result("image", task[a].image)
                /\ ~timed_out[a] => processed_textures[a] = task[a].image
                /\ processed_textures' = processed_textures
          /\ (Collected(a) /\ "store" \in task[a].ops
                 /\ last_stored[a] # task[a].image) =>
                /\ task[a].result = Result("image", task[a].image)
                /\ processed_textures[a] = task[a].image
                /\ processing_queue' =
                      Append2(processing_queue, a, task[a].result)]_vars

\* a body whose cache write failed (nothing on disk holds its buffer) is in the
\* queue with its processed buffer
C23_Witness ==
    \E a \in Loaded :
       /\ "store" \in task[a].ops
       /\ last_stored[a] # processed_textures[a]
       /\ ~LoadFromCachePreprocessed(cache[a], now).hit
       /\ \E i \in 1..Len(processing_queue) :
             /\ processing_queue[i].name = a
             /\ processing_queue[i].result = Result("image", processed_textures[a])

\* C24: at most MaxWorkers (4) load tasks execute at the same time, however
\* many were submitted; a task is started only when fewer than four are being
\* executed, so the others stay queued until a worker is free.
C24_AtMostFourTasksRun ==
    [][/\ Cardinality(Running') <= MaxWorkers
       /\ \A a \in Assets :
             (task[a].st = "queued" /\ task'[a].st = "running") =>
                Cardinality(Running) < MaxWorkers]_vars

\* five tasks were submitted, four are being executed and the fifth is queued
C24_Witness ==
    /\ Len(texture_files) > MaxWorkers
    /\ Cardinality(Running) = MaxWorkers
    /\ \E a \in Loaded : task[a].st = "queued"

\* a cache file appears where there was none
Stored(a) == ~cache[a].exists /\ cache'[a].exists

WrittenRecords == {a \in Assets : cache[a].readable /\ cache[a].mtime >= Epoch}

FrameNow(a) == GetAnimatedTexture(animation_frames, current_frame, a)
FrameNext(a) == GetAnimatedTexture(animation_frames', current_frame', a)

\* C27: the animated frame returned for a body is the frame at index (tick
\* counter mod sequence length), which is always within the sequence; a body
\* without an animation recipe always yields None; and each update moves every
\* sequence to its next frame, the last one being followed by frame 0 (the
\* counter's own wrap at 10 neither skips nor repeats a frame of a sequence of
\* five).
C27_FramesInOrder ==
    [][\A a \in Assets :
          /\ a \notin Animated => FrameNext(a) = NoImage
          /\ animation_frames'[a] # <<>> =>
                LET n == Len(animation_frames'[a])
                    i == current_frame' % n
                IN  /\ i \in 0..(n - 1)
                    /\ FrameNext(a) = animation_frames'[a][i + 1]
                    /\ FrameNext(a).tone = i
                    /\ FrameNext(a) # NoImage
                    /\ (current_frame' # current_frame /\ animation_frames[a] # <<>>) =>
                          FrameNext(a).tone = (FrameNow(a).tone + 1) % n]_vars

\* the counter is at its last value before the wrap, and the frame returned
\* for an animated body is the last of its sequence
C27_Witness ==
    /\ current_frame = FrameWrap - 1
    /\ \E a \in Loaded :
          /\ Len(animation_frames[a]) = FrameCount
          /\ FrameNow(a).tone = FrameCount - 1
    /\ \E a \in Loaded : processed_textures[a] # NoImage /\ FrameNow(a) = NoImage

\* C30: every device texture an upload of the advanced manager created is
\* either recorded in the registry as the current handle of its body or
\* released: no live texture is
\* missing from the registry, and there are never more live textures than
\* bodies loaded.
C30_NoTextureLeak ==
    Advanced =>
       /\ \A t \in gl_tex : textures[t.name] = t.id
       /\ Cardinality(gl_tex) <= Cardinality(Loaded)

(***************************************************************************)
(* What the drain uploads                                                  *)
(***************************************************************************)
\* the latest item the queue holds for body a (0: none)
LastItem(q, a) ==
    IF \E i \in 1..Len(q) : q[i].name = a
    THEN CHOOSE i \in 1..Len(q) : q[i].name = a /\ \A j \in (i + 1)..Len(q) : q[j].name # a
    ELSE 0

\* the pixels of the texture the registry holds for body a after the step
PublishedPixels(a) ==
    (CHOOSE t \in gl_tex' : t.id = textures'[a]).pixels

\* C31: the pixel buffer uploaded for a body at drain time is the buffer its
\* queued result carries: whatever happened between the enqueue and the drain
\* (a timed-out task finishing late, optimize_memory, a cache reload), a drain
\* that publishes a body from a queued image publishes that image.
C31_DrainUploadsQueuedBuffer ==
    [][DrainStep =>
          \A a \in Assets :
             LET i == LastItem(processing_queue, a)
             IN  (/\ i # 0
                  /\ processing_queue[i].result.kind = "image"
                  /\ last_drain'[a].outcome = "published") =>
                    PublishedPixels(a) = processing_queue[i].result.image]_vars

\* C32: a task that completed with a cache hit is published by the next drain
\* whenever the device upload succeeds, from the buffer the worker's hit left
\* in memory, even if the cache entry expired, was removed or became
\* unreadable between the hit and the drain: the drain of a "cached" result
\* ends in a publication or in a failed upload, never in a cache miss.
C32_CacheHitPublishedByNextDrain ==
    [][DrainStep =>
          \A a \in Assets :
             LET i == LastItem(processing_queue, a)
             IN  (i # 0 /\ processing_queue[i].result.kind = "cached") =>
                    /\ last_drain'[a].outcome \in {"published", "upload_failed"}
                    /\ last_drain'[a].outcome = "published" =>
                          PublishedPixels(a) = processed_textures[a]]_vars

\* C33: a body that has an animation recipe (sun, earth) has an animation
\* sequence once its load has succeeded, whichever path produced its result
\* (the full pipeline, a cache hit or the raw fallback): until the manager is
\* cleaned up, a published animated body never yields None as its animated
\* frame.
C33_PublishedAnimatedBodyHasFrames ==
    \A a \in Loaded \cap Animated :
        (Advanced /\ pc # "closed" /\ textures[a] # NoTex) =>
            /\ animation_frames[a] # <<>>
            /\ FrameNow(a) # NoImage

(***************************************************************************)
(* The workers and the owning thread                                       *)
(***************************************************************************)
\* a step of a worker: the task of some body that is running moves on
WorkerStep == \E a \in Assets : a \in Running /\ task'[a] # task[a]

\* a step of the owning thread after the load: a drain, a bind or the cleanup
OwnerStep == DrainStep \/ pc' \in {"rendering", "closed"}

\* C34: no worker task runs while the drain executes.  The load returns only
\* when every submitted task has finished, the tasks whose await timed out
\* included; so a drain, a bind or the cleanup starts with no task queued or
\* running and moves no task, and every step of a worker (its writes to the
\* queue, to the processed images and to the animation frames) happens while
\* the load is still awaiting or joining.
C34_NoWorkerDuringDrain ==
    [][/\ (pc # "idle" /\ pc' = "idle") => \A a \in Loaded : task[a].st = "done"
       /\ OwnerStep =>
             /\ Running = {}
             /\ \A a \in Assets : task[a].st \in {"none", "done"}
             /\ task' = task
       /\ WorkerStep => pc \in {"awaiting", "joining"} /\ pc' = pc]_vars

\* the load returned after a task whose await had timed out finished late, and
\* the drain then handled that body
C34_Witness ==
    /\ Advanced /\ pc = "idle"
    /\ \E a \in Loaded :
          /\ timed_out[a] /\ task[a].st = "done"
          /\ "store" \in task[a].ops
          /\ last_drain[a].at # <<>>

(***************************************************************************)
(* The drain after cleanup.  cleanup() sets no flag and leaves the queue   *)
(* as it is, and process_queue() tests nothing but the queue: a call after *)
(* cleanup runs the same code.                                             *)
(***************************************************************************)
\* process_queue() called after cleanup()
ProcessQueueAfterCleanup ==
    /\ pc = "closed"
    /\ ProcessQueueBody

ShutdownNext == Next \/ ProcessQueueAfterCleanup

ShutdownSpec == Init /\ [][ShutdownNext]_vars

\* C35: after shutdown a later drain creates no device texture and publishes
\* no handle, even when results were still waiting in the queue at shutdown:
\* no step taken after cleanup adds a texture to the device or changes the
\* registry.
C35_NoPublicationAfterShutdown ==
    [][pc = "closed" => (gl_tex' \subseteq gl_tex /\ textures' = textures)]_vars

====
